---- MODULE Spec2Model ----
(***************************************************************************)
(* Model of the OSM XML ingest core of libosmium:                          *)
(*   include/osmium/io/detail/xml_input_format.hpp  (XMLParser)            *)
(* The parser task XMLParser::run pops chunks from the input queue, feeds  *)
(* them to Expat, whose callbacks start_element / end_element / characters *)
(* drive the context machine and the builders writing into m_buffer, and   *)
(* sends committed buffers to the output queue.                            *)
(***************************************************************************)
EXTENDS Integers, Sequences, FiniteSets, TLC

\* ------------------------------------------------------------------ bounds
\* Start tags in one document, those below a discussion apart.
MaxTags == 4
\* Start tags below a discussion (handled in context discussion, comment or
\* comment_text) in one document.
MaxCommentTags == 2
\* Open elements at one time (depth of the Expat element stack).
MaxDepth == 5
\* character-data callbacks in one document.
MaxChars == 1
\* The same three bounds for the documents that hold one entity.
MaxEntityTags == 5
MaxEntityCommentTags == 4
MaxEntityChars == 2
\* The callers that register factories, 1..MaxFactory.
MaxFactory == 3
\* Start tags of a document of the family the termination of the task is
\* checked on.
MaxShortTags == 3
\* Start tags of a document of the family that tells the sections of an
\* osmChange apart.
MaxSectionTags == 4
\* The file descriptors and buffer sizes a create call can pass, 0..MaxArg.
MaxArg == 1
\* Bits of osmium::object_id_type and osmium::unsigned_object_id_type: the
\* arithmetic of NodeRef is that of int64_t and uint64_t at this width.
RefBits == 4
\* The locations a NodeRef can hold, 0..MaxLocation; 0 is the undefined one.
MaxLocation == 1
\* Bytes of the memory buffer a NoDecompressor is constructed over, and bytes
\* one ::read() returns.
MaxBufferSize == 2
\* Calls of read() on one NoDecompressor.
MaxReads == 3
\* Calls of close() on one NoCompressor or NoDecompressor before it is
\* destroyed.
MaxCloses == 2
\* Bytes an entity builder reserves for an object with a short user name.
SmallEntity == 64
\* Bytes an entity builder reserves for an object with a very long user name.
BigEntity == 1800000
\* Bytes one tag, node reference, member or comment adds to its list.
SubItemSize == 16

\* ------------------------------------------------------- program constants
buffer_size == 2000000

Kinds == {"node", "way", "relation", "changeset"}

EntityBuilders == {"node", "way", "relation", "changeset"}
SubListBuilders == {"tl", "wnl", "rml", "discussion"}

\* The entity masks a run is started with.
Masks == {{}, {"node", "way"}, {"relation", "changeset"}}

NoAttr == "absent"

\* The attributes of a start tag that the handlers read.  size is the number
\* of bytes the object and its user name take in the buffer.
NoAttrs == [name |-> "", id |-> 0, version |-> NoAttr, visible |-> NoAttr,
            type |-> NoAttr, ref |-> NoAttr, size |-> 0]

\* The attribute sets the documents give an element: every visibility on a
\* node or way, both sizes on a node or relation.
AttrsOf(element) ==
    CASE element \in {"osm", "osmChange"} ->
           {[NoAttrs EXCEPT !.version = v] : v \in {NoAttr, "0.6", "0.5"}}
      [] element \in {"node", "way"} ->
           {[NoAttrs EXCEPT !.visible = v, !.size = SmallEntity] :
               v \in {NoAttr, "true", "false"}}
           \cup (IF element = "node" THEN {[NoAttrs EXCEPT !.size = BigEntity]} ELSE {})
      [] element \in {"relation", "changeset"} ->
           {[NoAttrs EXCEPT !.size = s] :
               s \in IF element = "relation" THEN {SmallEntity, BigEntity}
                                             ELSE {SmallEntity}}
      [] element = "member" ->
           {[NoAttrs EXCEPT !.type = t, !.ref = r] :
               t \in {NoAttr, "r", "x"}, r \in {NoAttr, "0", "7"}}
      [] element = "nd" -> {[NoAttrs EXCEPT !.ref = "7"]}
      [] OTHER -> {NoAttrs}

\* The element names a document offers below an element handled in context c:
\* every name the handlers compare against in c or at the matching end tag,
\* and "other" for every name they compare with nothing, create and modify
\* below osmChange among them ("osm" below the root stands for osm and
\* osmChange).
Offered(c) ==
    CASE c = "root" -> {"osm", "osmChange", "other"}
      [] c = "top" -> Kinds \cup {"bounds", "delete", "osm", "other"}
      [] c = "node" -> {"tag", "other"}
      [] c = "way" -> {"nd", "tag", "other"}
      [] c = "relation" -> {"member", "tag", "other"}
      [] c = "changeset" -> {"discussion", "tag", "changeset", "other"}
      [] c = "discussion" -> {"comment", "other"}
      [] c = "comment" -> {"text", "other"}
      [] c = "comment_text" -> {"other"}
      [] c = "ignored_node" -> {"node", "tag", "other"}
      [] c = "ignored_way" -> {"way", "nd", "other"}
      [] c = "ignored_relation" -> {"relation", "member", "other"}
      [] c = "ignored_changeset" -> {"changeset", "discussion", "other"}
      [] OTHER -> {"other"}

Texts == {"a", "b"}

VARIABLES
    decomp,               \* a NoDecompressor or NoCompressor, and what the calls on it did
    nodeRef,              \* two NodeRef objects and what the last call on them returned
    m_callbacks,          \* CompressionFactory::m_callbacks
    regRet,               \* the last call on the factory and what it returned
    regFirst,             \* history: the factories first registered for each key
    docs,                 \* the family the document is drawn from
    ndebug,               \* the build: TRUE when assert() compiles to nothing
    m_read_types,         \* Parser::m_read_types, the entity mask
    pc,                   \* position of the parser task
    err,                  \* the exception in flight, "none" without one
    m_input_queue_done,   \* Parser::m_input_queue_done
    data,                 \* run(): the chunk popped last, "" when it is empty
    last,                 \* the last flag of the running call of parser()
    m_header_is_done,     \* Parser::m_header_is_done
    promise,              \* Parser::m_header_promise
    output,               \* the buffers sent to Parser::m_output_queue, in send order
    xstack,               \* Expat: the open elements, each with the context its
                          \* start tag was handled in and, for the text of a
                          \* comment, the character data it received
    rootClosed,           \* Expat: the document element has been closed
    nTags,                \* start tags delivered so far, those below a discussion apart
    nCommentTags,         \* start tags below a discussion delivered so far
    nChars,               \* character-data callbacks delivered so far
    m_context,
    m_last_context,
    m_in_delete_section,
    m_header,
    m_buffer,
    builders,             \* the unique_ptr builders that are not null
    m_comment_text,
    hdrLog,               \* history: the call sites at which set_value ran
    rootTag,              \* history: the first start tag of the document
    docSel,               \* history: mask-selected entities of the document, by end tag
    delIds                \* history: ids of the entities started inside a delete section

regVars == <<m_callbacks, regRet, regFirst>>
envVars == <<docs, ndebug, m_read_types, regVars, nodeRef, decomp>>
queueVars == <<m_input_queue_done, data, last>>
expatVars == <<xstack, rootClosed, nTags, nCommentTags, nChars, rootTag, docSel, delIds>>

vars == <<decomp, nodeRef, m_callbacks, regRet, regFirst, docs, ndebug, m_read_types, pc, err, m_input_queue_done, data, last,
          m_header_is_done,
          promise, output, xstack, rootClosed, nTags, nCommentTags,
          nChars, m_context,
          m_last_context, m_in_delete_section, m_header, m_buffer, builders,
          m_comment_text, hdrLog, rootTag, docSel, delIds>>

\* ------------------------------------------------------------------ buffer
\* osmium::memory::Buffer(buffer_size): nothing written, nothing committed.
\* items are the committed entities, pending the entity being written.
NewBuffer(capacity) ==
    [capacity |-> capacity, committed |-> 0, written |-> 0,
     items |-> <<>>, pending |-> <<>>]

\* --------------------------------------------------------- the parser state
\* The members of XMLParser and Parser that the callbacks and run() read and
\* write, as one record: the handlers below are functions from this record
\* to the record after the call.
Cur ==
    [pc |-> pc, err |-> err,
     m_header_is_done |-> m_header_is_done, promise |-> promise,
     output |-> output, hdrLog |-> hdrLog,
     m_context |-> m_context, m_last_context |-> m_last_context,
     m_in_delete_section |-> m_in_delete_section, m_header |-> m_header,
     m_buffer |-> m_buffer, builders |-> builders,
     m_comment_text |-> m_comment_text]

Apply(s) ==
    /\ pc' = s.pc
    /\ err' = s.err
    /\ m_header_is_done' = s.m_header_is_done
    /\ promise' = s.promise
    /\ output' = s.output
    /\ hdrLog' = s.hdrLog
    /\ m_context' = s.m_context
    /\ m_last_context' = s.m_last_context
    /\ m_in_delete_section' = s.m_in_delete_section
    /\ m_header' = s.m_header
    /\ m_buffer' = s.m_buffer
    /\ builders' = s.builders
    /\ m_comment_text' = s.m_comment_text

\* throw, with run() going on behind its loop as if it had caught the exception.
Throw_caught_in_run(s, e) == [s EXCEPT !.pc = "header", !.err = e]

\* throw: the exception leaves the callback, XML_Parse and run().
Throw(s, e) == [s EXCEPT !.pc = "failed", !.err = e]

\* A failed assert() ends the process; with NDEBUG it is not evaluated.
AssertFailed(s) == [s EXCEPT !.pc = "aborted", !.err = "assert"]

\* operator-> on a unique_ptr that is null.
NullDeref(s) == [s EXCEPT !.pc = "ub", !.err = "null_builder"]

\* ------------------------------------------------------------------ buffer
\* Buffer::commit(): what was written becomes committed.
Commit(b) ==
    [b EXCEPT !.committed = b.written,
              !.items = b.items \o b.pending,
              !.pending = <<>>]

\* A new object of a kind, as its builder's constructor leaves it.
NewObject(kind) == [kind |-> kind, id |-> 0, visible |-> TRUE, lists |-> <<>>]

\* The constructor of an entity builder and add_user: the object and its
\* user name are written behind what the buffer holds.
AddObject(b, obj, size) ==
    [b EXCEPT !.written = b.written + size, !.pending = Append(b.pending, obj)]

\* The constructor of a sub-list builder: a new list opens in the object
\* being written.
OpenList(b, type) ==
    LET n == Len(b.pending) IN
    [b EXCEPT !.pending[n].lists =
                   Append(b.pending[n].lists, [type |-> type, items |-> <<>>])]

\* The last list of a type in the object being written: the list the alive
\* builder of that type writes to.
LastList(obj, type) ==
    CHOOSE i \in 1..Len(obj.lists) :
        /\ obj.lists[i].type = type
        /\ \A j \in (i+1)..Len(obj.lists) : obj.lists[j].type # type

\* add_tag / add_node_ref / add_member / add_comment on a sub-list builder.
AddItem(b, type, item) ==
    LET n == Len(b.pending)
        i == LastList(b.pending[n], type) IN
    [b EXCEPT !.written = b.written + SubItemSize,
              !.pending[n].lists[i].items =
                   Append(b.pending[n].lists[i].items, item)]

\* ChangesetDiscussionBuilder::add_comment_text: the body of the comment
\* added last.
SetCommentText(b, text) ==
    LET n == Len(b.pending)
        i == LastList(b.pending[n], "discussion")
        k == Len(b.pending[n].lists[i].items) IN
    [b EXCEPT !.written = b.written + SubItemSize,
              !.pending[n].lists[i].items[k].text = text]

\* ----------------------------------------------------------- header promise
\* The place of a call of header_is_done: the callback, its element, the
\* context it runs in and the number of elements open when it is called.
Site(s, op, element) ==
    [op |-> op, element |-> element, context |-> s.m_context,
     open |-> Len(xstack)]

\* header_is_done() with its body left out.
header_is_done_never(s, site) == s

header_is_done(s, site) ==
    IF ~s.m_header_is_done
    THEN [s EXCEPT !.m_header_is_done = TRUE,
                   !.promise = [state |-> "value", value |-> s.m_header,
                                error |-> "none"],
                   !.hdrLog = Append(s.hdrLog, site)]
    ELSE s

\* ------------------------------------------------------------ output queue
\* Parser::send_to_output_queue(std::move(m_buffer)): the buffer as it is,
\* with what held of the parser when it was sent.
send_to_output_queue(s, site) ==
    [s EXCEPT !.output =
        Append(s.output,
               [items |-> s.m_buffer.items,
                pending |-> s.m_buffer.pending,
                committed |-> s.m_buffer.committed,
                written |-> s.m_buffer.written,
                capacity |-> s.m_buffer.capacity,
                builders |-> s.builders,
                header_done |-> s.m_header_is_done,
                site |-> site])]

flush_buffer(s) ==
    IF s.m_buffer.committed > (buffer_size \div 10) * 9
    THEN [send_to_output_queue(s, "flush_buffer")
             EXCEPT !.m_buffer = NewBuffer(buffer_size)]
    ELSE s

\* ------------------------------------------------------- attribute values
\* osmium::char_to_item_type on the first character of a member's type.
char_to_item_type(v) ==
    CASE v = "n" -> "node"
      [] v = "w" -> "way"
      [] v = "r" -> "relation"
      [] OTHER -> "undefined"

\* osmium::string_to_object_id on the decimal strings of the documents.
string_to_object_id(v) ==
    CASE v = "0" -> 0
      [] v = "7" -> 7
      [] OTHER -> 0

\* OSMObject::set_attribute for the attributes the documents carry: id and
\* visible ("true" / "false").
set_attributes(obj, attrs) ==
    LET o1 == [obj EXCEPT !.id = attrs.id] IN
    IF attrs.visible = NoAttr
    THEN o1
    ELSE [o1 EXCEPT !.visible = (attrs.visible = "true")]

\* The object of a node, way or relation after init_object.
init_object(s, obj, attrs) ==
    LET o1 == IF s.m_in_delete_section THEN [obj EXCEPT !.visible = FALSE] ELSE obj
    IN set_attributes(o1, attrs)

\* The changeset after init_changeset: no attribute read there touches
\* visibility.
init_changeset(s, obj, attrs) == [obj EXCEPT !.id = attrs.id]

get_tag(s, parent) ==
    IF parent \notin s.builders
    THEN NullDeref(s)
    ELSE LET s1 == IF "tl" \notin s.builders
                   THEN [s EXCEPT !.builders = @ \cup {"tl"},
                                  !.m_buffer = OpenList(@, "tags")]
                   ELSE s
         IN [s1 EXCEPT !.m_buffer = AddItem(@, "tags", [k |-> "k"])]

Ignored(kind) ==
    CASE kind = "node" -> "ignored_node"
      [] kind = "way" -> "ignored_way"
      [] kind = "relation" -> "ignored_relation"
      [] OTHER -> "ignored_changeset"

\* -------------------------------------------------------- start_element
\* case context::root without the checks of the version attribute.
start_root_any_version(s, element, attrs) ==
    IF element \in {"osm", "osmChange"}
    THEN LET s1 == IF element = "osmChange"
                   THEN [s EXCEPT !.m_header.multi = TRUE]
                   ELSE s
             s2 == IF attrs.version # NoAttr
                   THEN [s1 EXCEPT !.m_header.version = attrs.version]
                   ELSE s1
         IN [s2 EXCEPT !.m_context = "top"]
    ELSE Throw(s, "unknown_top_level_element")

\* case context::root without the check of the element's name.
start_root_any_name(s, element, attrs) ==
    LET s1 == IF element = "osmChange"
              THEN [s EXCEPT !.m_header.multi = TRUE]
              ELSE s
        s2 == IF attrs.version # NoAttr
              THEN [s1 EXCEPT !.m_header.version = attrs.version]
              ELSE s1
    IN IF attrs.version # NoAttr /\ attrs.version # "0.6"
       THEN Throw(s2, "format_version")
       ELSE IF s2.m_header.version = ""
       THEN Throw(s2, "format_version")
       ELSE [s2 EXCEPT !.m_context = "top"]

\* case context::root without set_has_multiple_object_versions(true).
start_root_no_multi(s, element, attrs) ==
    IF element \in {"osm", "osmChange"}
    THEN LET s2 == IF attrs.version # NoAttr
                   THEN [s EXCEPT !.m_header.version = attrs.version]
                   ELSE s
         IN IF attrs.version # NoAttr /\ attrs.version # "0.6"
            THEN Throw(s2, "format_version")
            ELSE IF s2.m_header.version = ""
            THEN Throw(s2, "format_version")
            ELSE [s2 EXCEPT !.m_context = "top"]
    ELSE Throw(s, "unknown_top_level_element")

\* case context::root
start_root(s, element, attrs) ==
    IF element \in {"osm", "osmChange"}
    THEN LET s1 == IF element = "osmChange"
                   THEN [s EXCEPT !.m_header.multi = TRUE]
                   ELSE s
             s2 == IF attrs.version # NoAttr
                   THEN [s1 EXCEPT !.m_header.version = attrs.version]
                   ELSE s1
         IN IF attrs.version # NoAttr /\ attrs.version # "0.6"
            THEN Throw(s2, "format_version")
            ELSE IF s2.m_header.version = ""
            THEN Throw(s2, "format_version")
            ELSE [s2 EXCEPT !.m_context = "top"]
    ELSE Throw(s, "unknown_top_level_element")

\* case context::top, element node / way / relation / changeset
start_entity(s, kind, attrs) ==
    LET s1 == header_is_done(s, Site(s, "start_element", kind))
        obj == IF kind = "changeset"
               THEN init_changeset(s1, NewObject(kind), attrs)
               ELSE init_object(s1, NewObject(kind), attrs)
    IN IF kind \in m_read_types
       THEN [s1 EXCEPT !.builders = @ \cup {kind},
                       !.m_buffer = AddObject(@, obj, attrs.size),
                       !.m_context = kind]
       ELSE [s1 EXCEPT !.m_context = Ignored(kind)]

\* case context::top
start_top(s, element, attrs) ==
    IF "tl" \in s.builders /\ ~ndebug
    THEN AssertFailed(s)
    ELSE IF element \in Kinds
    THEN start_entity(s, element, attrs)
    ELSE IF element = "bounds"
    THEN [s EXCEPT !.m_header.boxes = @ + 1]
    ELSE IF element = "delete"
    THEN [s EXCEPT !.m_in_delete_section = TRUE]
    ELSE s

\* case context::node
start_node(s, element, attrs) ==
    LET s1 == [s EXCEPT !.m_last_context = "node", !.m_context = "in_object"] IN
    IF element = "tag" THEN get_tag(s1, "node") ELSE s1

\* case context::way with a tag start tag that keeps the way-node list
\* builder.
start_way_keeps_wnl(s, element, attrs) ==
    LET s1 == [s EXCEPT !.m_last_context = "way", !.m_context = "in_object"] IN
    IF element = "nd"
    THEN LET s2 == [s1 EXCEPT !.builders = @ \ {"tl"}] IN
         IF "way" \notin s2.builders
         THEN NullDeref(s2)
         ELSE LET s3 == IF "wnl" \notin s2.builders
                        THEN [s2 EXCEPT !.builders = @ \cup {"wnl"},
                                        !.m_buffer = OpenList(@, "nodes")]
                        ELSE s2
              IN IF attrs.ref # NoAttr
                 THEN [s3 EXCEPT !.m_buffer =
                          AddItem(@, "nodes", [ref |-> string_to_object_id(attrs.ref)])]
                 ELSE s3
    ELSE IF element = "tag"
    THEN get_tag(s1, "way")
    ELSE s1

\* case context::way
start_way(s, element, attrs) ==
    LET s1 == [s EXCEPT !.m_last_context = "way", !.m_context = "in_object"] IN
    IF element = "nd"
    THEN LET s2 == [s1 EXCEPT !.builders = @ \ {"tl"}] IN
         IF "way" \notin s2.builders
         THEN NullDeref(s2)
         ELSE LET s3 == IF "wnl" \notin s2.builders
                        THEN [s2 EXCEPT !.builders = @ \cup {"wnl"},
                                        !.m_buffer = OpenList(@, "nodes")]
                        ELSE s2
              IN IF attrs.ref # NoAttr
                 THEN [s3 EXCEPT !.m_buffer =
                          AddItem(@, "nodes", [ref |-> string_to_object_id(attrs.ref)])]
                 ELSE s3
    ELSE IF element = "tag"
    THEN get_tag([s1 EXCEPT !.builders = @ \ {"wnl"}], "way")
    ELSE s1

\* add_member without the checks of type and ref.
add_member_unchecked(s, attrs) ==
    [s EXCEPT !.m_buffer =
        AddItem(@, "members", [type |-> char_to_item_type(attrs.type),
                               ref |-> string_to_object_id(attrs.ref)])]

\* The checks of a member's type and ref, and add_member.
add_member(s, attrs) ==
    LET type == IF attrs.type = NoAttr
                THEN "undefined"
                ELSE char_to_item_type(attrs.type)
        ref == IF attrs.ref = NoAttr THEN 0 ELSE string_to_object_id(attrs.ref)
    IN IF type \notin {"node", "way", "relation"}
       THEN Throw(s, "unknown_member_type")
       ELSE IF ref = 0
       THEN Throw(s, "missing_ref")
       ELSE [s EXCEPT !.m_buffer =
                AddItem(@, "members", [type |-> type, ref |-> ref])]

\* case context::relation
start_relation(s, element, attrs) ==
    LET s1 == [s EXCEPT !.m_last_context = "relation", !.m_context = "in_object"] IN
    IF element = "member"
    THEN LET s2 == [s1 EXCEPT !.builders = @ \ {"tl"}] IN
         IF "relation" \notin s2.builders
         THEN NullDeref(s2)
         ELSE LET s3 == IF "rml" \notin s2.builders
                        THEN [s2 EXCEPT !.builders = @ \cup {"rml"},
                                        !.m_buffer = OpenList(@, "members")]
                        ELSE s2
              IN add_member(s3, attrs)
    ELSE IF element = "tag"
    THEN get_tag([s1 EXCEPT !.builders = @ \ {"rml"}], "relation")
    ELSE s1

\* start_element in context changeset that never creates the discussion
\* builder.
start_changeset_no_discussion_builder(s, element, attrs) ==
    LET s1 == [s EXCEPT !.m_last_context = "changeset"] IN
    IF element = "discussion"
    THEN [s1 EXCEPT !.m_context = "discussion", !.builders = @ \ {"tl"}]
    ELSE IF element = "tag"
    THEN get_tag([s1 EXCEPT !.m_context = "in_object",
                            !.builders = @ \ {"discussion"}], "changeset")
    ELSE s1

\* case context::changeset
start_changeset(s, element, attrs) ==
    LET s1 == [s EXCEPT !.m_last_context = "changeset"] IN
    IF element = "discussion"
    THEN LET s2 == [s1 EXCEPT !.m_context = "discussion",
                              !.builders = @ \ {"tl"}] IN
         IF "discussion" \in s2.builders
         THEN s2
         ELSE IF "changeset" \notin s2.builders
         THEN NullDeref(s2)
         ELSE [s2 EXCEPT !.builders = @ \cup {"discussion"},
                         !.m_buffer = OpenList(@, "discussion")]
    ELSE IF element = "tag"
    THEN get_tag([s1 EXCEPT !.m_context = "in_object",
                            !.builders = @ \ {"discussion"}], "changeset")
    ELSE s1

\* case context::discussion
start_discussion(s, element, attrs) ==
    IF element = "comment"
    THEN LET s1 == [s EXCEPT !.m_context = "comment"] IN
         IF "discussion" \notin s1.builders
         THEN NullDeref(s1)
         ELSE [s1 EXCEPT !.m_buffer = AddItem(@, "discussion", [text |-> <<>>])]
    ELSE s

\* case context::comment
start_comment(s, element, attrs) ==
    IF element = "text" THEN [s EXCEPT !.m_context = "comment_text"] ELSE s

\* case context::in_object
start_in_object(s, element, attrs) ==
    IF ~ndebug THEN AssertFailed(s) ELSE s

start_element(s, element, attrs) ==
    CASE s.m_context = "root" -> start_root(s, element, attrs)
      [] s.m_context = "top" -> start_top(s, element, attrs)
      [] s.m_context = "node" -> start_node(s, element, attrs)
      [] s.m_context = "way" -> start_way(s, element, attrs)
      [] s.m_context = "relation" -> start_relation(s, element, attrs)
      [] s.m_context = "changeset" -> start_changeset(s, element, attrs)
      [] s.m_context = "discussion" -> start_discussion(s, element, attrs)
      [] s.m_context = "comment" -> start_comment(s, element, attrs)
      [] s.m_context = "in_object" -> start_in_object(s, element, attrs)
      [] OTHER -> s

\* ----------------------------------------------------------- end_element
\* case context::top
end_top(s, element) ==
    IF element \in {"osm", "osmChange"}
    THEN [header_is_done(s, Site(s, "end_element", element))
            EXCEPT !.m_context = "root"]
    ELSE IF element = "delete"
    THEN [s EXCEPT !.m_in_delete_section = FALSE]
    ELSE s

\* The entity cases with flush_buffer() called ahead of m_buffer.commit().
end_entity_flush_first(s, element, kind, own) ==
    IF element # kind /\ ~ndebug
    THEN AssertFailed(s)
    ELSE LET s1 == flush_buffer([s EXCEPT !.builders = @ \ own,
                                          !.m_context = "top"])
         IN [s1 EXCEPT !.m_buffer = Commit(@)]

\* case context::node / way / relation / changeset: own are the builders
\* the case resets.
end_entity(s, element, kind, own) ==
    IF element # kind /\ ~ndebug
    THEN AssertFailed(s)
    ELSE flush_buffer([s EXCEPT !.builders = @ \ own,
                                !.m_buffer = Commit(@),
                                !.m_context = "top"])

\* case context::discussion / comment
end_nested(s, element, name, back) ==
    IF element # name /\ ~ndebug
    THEN AssertFailed(s)
    ELSE [s EXCEPT !.m_context = back]

\* case context::comment_text
end_comment_text(s, element) ==
    IF element # "text" /\ ~ndebug
    THEN AssertFailed(s)
    ELSE LET s1 == [s EXCEPT !.m_context = "comment"] IN
         IF "discussion" \notin s1.builders
         THEN NullDeref(s1)
         ELSE [s1 EXCEPT !.m_buffer = SetCommentText(@, s.m_comment_text)]

\* case context::ignored_node / ignored_way / ignored_relation / ignored_changeset
end_ignored(s, element, kind) ==
    IF element = kind THEN [s EXCEPT !.m_context = "top"] ELSE s

end_element(s, element) ==
    CASE s.m_context = "root" -> IF ~ndebug THEN AssertFailed(s) ELSE s
      [] s.m_context = "top" -> end_top(s, element)
      [] s.m_context = "node" -> end_entity(s, element, "node", {"tl", "node"})
      [] s.m_context = "way" -> end_entity(s, element, "way", {"tl", "wnl", "way"})
      [] s.m_context = "relation" ->
            end_entity(s, element, "relation", {"tl", "rml", "relation"})
      [] s.m_context = "changeset" ->
            end_entity(s, element, "changeset", {"tl", "discussion", "changeset"})
      [] s.m_context = "discussion" -> end_nested(s, element, "discussion", "changeset")
      [] s.m_context = "comment" -> end_nested(s, element, "comment", "discussion")
      [] s.m_context = "comment_text" -> end_comment_text(s, element)
      [] s.m_context = "in_object" -> [s EXCEPT !.m_context = s.m_last_context]
      [] s.m_context = "ignored_node" -> end_ignored(s, element, "node")
      [] s.m_context = "ignored_way" -> end_ignored(s, element, "way")
      [] s.m_context = "ignored_relation" -> end_ignored(s, element, "relation")
      [] OTHER -> end_ignored(s, element, "changeset")

\* ------------------------------------------------------------ characters
characters(s, text) ==
    IF s.m_context = "comment_text"
    THEN [s EXCEPT !.m_comment_text = Append(@, text)]
    ELSE [s EXCEPT !.m_comment_text = <<>>]

\* osmium::io::Header(): no options, no boxes, has_multiple_object_versions false.
NewHeader == [multi |-> FALSE, version |-> "", boxes |-> 0]

\* ---------------------------------------------------------------- NodeRef
\* The values of object_id_type, and the number of values of
\* unsigned_object_id_type.
RefModulus == 2 ^ RefBits
MinRef == 0 - 2 ^ (RefBits - 1)
MaxRef == 2 ^ (RefBits - 1) - 1
Refs == MinRef..MaxRef
Locations == 0..MaxLocation

\* NodeRef(ref = 0, location = Location())
NodeRef(ref, location) == [ref |-> ref, location |-> location]

\* operator== comparing the locations as well.
op_eq_with_location(lhs, rhs) == lhs.ref = rhs.ref /\ lhs.location = rhs.location

op_eq(lhs, rhs) == lhs.ref = rhs.ref
op_ne(lhs, rhs) == ~op_eq(lhs, rhs)
op_lt(lhs, rhs) == lhs.ref < rhs.ref
op_gt(lhs, rhs) == op_lt(rhs, lhs)
op_le(lhs, rhs) == ~op_lt(rhs, lhs)
op_ge(lhs, rhs) == ~op_lt(lhs, rhs)
location_equal(lhs, rhs) == lhs.location = rhs.location

\* std::abs on object_id_type: the results a build can give.  The negation
\* of the smallest value overflows, which is undefined.
std_abs(r) ==
    IF r = MinRef THEN Refs
    ELSE IF r < 0 THEN {0 - r} ELSE {r}

\* static_cast<unsigned_object_id_type>
to_unsigned(v) == v % RefModulus

positive_ref(nr) == {to_unsigned(v) : v \in std_abs(nr.ref)}

\* No call yet on the two objects.
NoResult == [op |-> "none", lhs |-> NodeRef(0, 0), rhs |-> NodeRef(0, 0),
             eq |-> FALSE, ne |-> FALSE, lt |-> FALSE, gt |-> FALSE,
             le |-> FALSE, ge |-> FALSE, loc_eq |-> FALSE,
             pos_lhs |-> 0, pos_rhs |-> 0]

\* --------------------------------------------------------- NoDecompressor
\* Decompressor::input_buffer_size
input_buffer_size == 256 * 1024

\* The bytes 1..size of a source, the memory buffer or the file, from an
\* offset on.
BytesOf(source, offset, size) == [i \in 1..size |-> <<source, offset + i>>]

\* What the calls made so far returned and did: the strings returned by
\* read(), the calls of ::read() and ::close(), the offset in the file.
NoCalls == [chunks |-> <<>>, thrown |-> FALSE, fd_reads |-> 0, fd_closes |-> 0,
            offset |-> 0, close_calls |-> 0, destroyed |-> FALSE]

\* NoDecompressor(int fd)
NoDecompressor_fd(fd) ==
    [made |-> "fd", m_fd |-> fd, m_buffer |-> "nullptr", m_buffer_size |-> 0,
     n |-> 0, log |-> NoCalls]

\* NoDecompressor(const char* buffer, size_t size)
NoDecompressor_buffer(buffer, size) ==
    [made |-> "buffer", m_fd |-> 0 - 1, m_buffer |-> buffer,
     m_buffer_size |-> size, n |-> size, log |-> NoCalls]

\* ::read(m_fd, buffer.data(), buffer.size()): the values it can return, -1
\* on a descriptor that is not open.
sys_read(fd) ==
    IF fd < 0 THEN {0 - 1}
    ELSE {nread \in (0 - 1)..MaxBufferSize : nread <= input_buffer_size}

\* NoDecompressor::read(), nread being what ::read() returns if it is called.
read(d, nread) ==
    IF d.m_buffer # "nullptr"
    THEN IF d.m_buffer_size # 0
         THEN [d EXCEPT !.m_buffer_size = 0,
                        !.log.thrown = FALSE,
                        !.log.chunks = Append(@, BytesOf("buffer", 0, d.m_buffer_size))]
         ELSE [d EXCEPT !.log.thrown = FALSE, !.log.chunks = Append(@, <<>>)]
    ELSE IF nread < 0
    THEN [d EXCEPT !.log.thrown = TRUE, !.log.fd_reads = @ + 1]
    ELSE [d EXCEPT !.log.thrown = FALSE,
                   !.log.fd_reads = @ + 1,
                   !.log.offset = @ + nread,
                   !.log.chunks = Append(@, BytesOf("file", d.log.offset, nread))]

\* NoCompressor(int fd)
NoCompressor(fd) == [made |-> "compressor", m_fd |-> fd, log |-> NoCalls]

\* NoCompressor::close()
NoCompressor_close(d) ==
    IF d.m_fd >= 0
    THEN [d EXCEPT !.m_fd = 0 - 1, !.log.fd_closes = @ + 1]
    ELSE d

\* NoDecompressor::close() leaving the descriptor stored.
close_keeps_fd(d) ==
    IF d.m_fd >= 0
    THEN [d EXCEPT !.log.fd_closes = @ + 1]
    ELSE d

\* NoDecompressor::close()
close(d) ==
    IF d.m_fd >= 0
    THEN [d EXCEPT !.m_fd = 0 - 1, !.log.fd_closes = @ + 1]
    ELSE d

\* ------------------------------------------------------ CompressionFactory
\* osmium::io::file_compression
Compressions == {"none", "gzip", "bzip2"}

\* The three factory functions one caller passes to register_compression:
\* functions of three different types, so never one another.
Factories ==
    {<<<<f, "compressor">>, <<f, "decompressor_fd">>, <<f, "decompressor_buffer">>>> :
        f \in 1..MaxFactory}

\* No call yet on the factory.
NoCall == [op |-> "none", key |-> "none", known |-> FALSE, ok |-> FALSE,
           result |-> "none", by |-> <<0, "none">>, arg |-> 0]

\* std::map::insert: first and second of the pair it returns.
map_insert(m, key, value) ==
    IF key \in DOMAIN m
    THEN [map |-> m, second |-> FALSE]
    ELSE [map |-> m @@ (key :> value), second |-> TRUE]

\* register_compression storing the new factories over the old ones.
register_compression_overwrite(m, compression, cc) ==
    [map |-> [k \in DOMAIN m \cup {compression} |->
                 IF k = compression THEN cc ELSE m[k]],
     second |-> TRUE]

register_compression(m, compression, cc) == map_insert(m, compression, cc)

\* CompressionFactory::error: throws std::runtime_error.
error(compression) == [result |-> "error", by |-> <<0, "none">>, arg |-> 0]

create_compressor(m, compression, fd) ==
    IF compression \in DOMAIN m
    THEN [result |-> "compressor", by |-> m[compression][1], arg |-> fd]
    ELSE error(compression)

create_decompressor_fd(m, compression, fd) ==
    IF compression \in DOMAIN m
    THEN [result |-> "decompressor_fd", by |-> m[compression][2], arg |-> fd]
    ELSE error(compression)

\* create_decompressor(compression, buffer, size) calling std::get<1>.
create_decompressor_buffer_wrong_slot(m, compression, size) ==
    IF compression \in DOMAIN m
    THEN [result |-> "decompressor_buffer", by |-> m[compression][2], arg |-> size]
    ELSE error(compression)

create_decompressor_buffer(m, compression, size) ==
    IF compression \in DOMAIN m
    THEN [result |-> "decompressor_buffer", by |-> m[compression][3], arg |-> size]
    ELSE error(compression)

\* The parser as constructed, for a build and an entity mask.
Constructed ==
    /\ decomp = [NoDecompressor_fd(0 - 1) EXCEPT !.made = "none"]
    /\ nodeRef = [lhs |-> NodeRef(0, 0), rhs |-> NodeRef(0, 0), ret |-> NoResult]
    /\ m_callbacks = <<>>
    /\ regRet = NoCall
    /\ regFirst = <<>>
    /\ ndebug \in BOOLEAN
    /\ m_read_types \in Masks
    /\ pc = "pop"
    /\ err = "none"
    /\ m_input_queue_done = FALSE
    /\ data = "bytes"
    /\ last = FALSE
    /\ m_header_is_done = FALSE
    /\ promise = [state |-> "pending", value |-> NewHeader, error |-> "none"]
    /\ output = <<>>
    /\ xstack = <<>>
    /\ rootClosed = FALSE
    /\ nTags = 0
    /\ nCommentTags = 0
    /\ nChars = 0
    /\ m_context = "root"
    /\ m_last_context = "root"
    /\ m_in_delete_section = FALSE
    /\ m_header = NewHeader
    /\ m_buffer = NewBuffer(buffer_size)
    /\ builders = {}
    /\ m_comment_text = <<>>
    /\ hdrLog = <<>>
    /\ rootTag = NoAttrs
    /\ docSel = <<>>
    /\ delIds = {}

\* Every document within the bounds.
Init ==
    /\ docs = "all"
    /\ Constructed

\* The documents <osmChange version="0.6"> of sections and nodes.
InitSections ==
    /\ docs = "sections"
    /\ Constructed

\* The documents <osm version="0.6"> with one entity below the root.
\* The documents of at most MaxShortTags start tags.
InitShort ==
    /\ docs = "short"
    /\ Constructed

InitOneEntity ==
    /\ docs = "one_entity"
    /\ Constructed

\* ------------------------------------------------------------------ Expat
\* An element named by a kind that is not inside another such element: an
\* entity of the document.
IsDocEntity(element) ==
    /\ element \in Kinds
    /\ xstack # <<>>
    /\ \A i \in 1..Len(xstack) : xstack[i].name \notin Kinds

\* A delete section is open: a delete element, child of the root osmChange.
DeleteOpen ==
    /\ Len(xstack) >= 2
    /\ xstack[1].name = "osmChange"
    /\ xstack[2].name = "delete"

\* XML_Parse is running on a chunk that holds data.
InCallbacks == pc = "parse" /\ data # ""

\* The contexts below a discussion.
InDiscussion == m_context \in {"discussion", "comment", "comment_text"}

\* The bounds of the family the document is drawn from.
TagBudget ==
    CASE docs = "all" -> MaxTags
      [] docs = "short" -> MaxShortTags
      [] docs = "sections" -> MaxSectionTags
      [] OTHER -> MaxEntityTags
CommentTagBudget == IF docs \in {"all", "short", "sections"} THEN MaxCommentTags ELSE MaxEntityCommentTags
CharBudget == IF docs \in {"all", "short", "sections"} THEN MaxChars ELSE MaxEntityChars

\* The element names and attributes the family offers for the next start
\* tag: a document of one entity has the root osm with version 0.6 and one
\* child of the root, an entity; a document of sections has the root
\* osmChange with version 0.6, below it nodes without a visible attribute,
\* changesets and the sections delete and create (create standing for modify
\* too).
DocOffered ==
    IF docs = "sections"
    THEN IF Len(xstack) = 0 THEN {"osmChange"}
         ELSE IF m_context = "top" THEN {"node", "changeset", "delete", "create"}
         ELSE Offered(m_context)
    ELSE IF docs \in {"all", "short"} \/ Len(xstack) > 1
    THEN Offered(m_context)
    ELSE IF Len(xstack) = 0
    THEN {"osm"}
    ELSE IF nTags = 1 THEN Kinds ELSE {}

\* The character data the family offers: documents of one entity tell the
\* texts of two comments apart.
DocTexts == IF docs = "one_entity" THEN Texts ELSE {"a"}

DocAttrs(element) ==
    IF docs = "sections"
    THEN IF Len(xstack) = 0 THEN {[NoAttrs EXCEPT !.version = "0.6"]}
         ELSE IF element = "node" THEN {[NoAttrs EXCEPT !.size = SmallEntity]}
         ELSE AttrsOf(element)
    ELSE IF docs \in {"all", "short"} \/ Len(xstack) > 0
    THEN AttrsOf(element)
    ELSE {[NoAttrs EXCEPT !.version = "0.6"]}

\* start_element_wrapper: Expat reports a start tag.  The id of an element
\* is its place among the start tags of the document.
XmlStart ==
    /\ InCallbacks
    /\ ~rootClosed
    /\ IF InDiscussion THEN nCommentTags < CommentTagBudget ELSE nTags < TagBudget
    /\ Len(xstack) < MaxDepth
    /\ \E element \in DocOffered :
         \E a \in DocAttrs(element) :
           LET id == nTags + nCommentTags + 1
               attrs == [a EXCEPT !.name = element, !.id = id] IN
           /\ Apply(start_element(Cur, element, attrs))
           /\ rootTag' = IF id = 1 THEN attrs ELSE rootTag
           /\ xstack' = Append(xstack, [name |-> element, id |-> id,
                                        docEnt |-> IsDocEntity(element),
                                        context |-> m_context,
                                        type |-> a.type, ref |-> a.ref,
                                        chars |-> <<>>])
           /\ delIds' = IF element \in Kinds /\ DeleteOpen
                        THEN delIds \cup {id}
                        ELSE delIds
    /\ nTags' = IF InDiscussion THEN nTags ELSE nTags + 1
    /\ nCommentTags' = IF InDiscussion THEN nCommentTags + 1 ELSE nCommentTags
    /\ UNCHANGED <<envVars, queueVars, rootClosed, nChars, docSel>>

\* end_element_wrapper: Expat reports the end tag of the innermost open element.
XmlEnd ==
    /\ InCallbacks
    /\ xstack # <<>>
    /\ LET frame == xstack[Len(xstack)] IN
       /\ Apply(end_element(Cur, frame.name))
       /\ docSel' = IF frame.docEnt /\ frame.name \in m_read_types
                    THEN Append(docSel, [kind |-> frame.name, id |-> frame.id])
                    ELSE docSel
    /\ xstack' = SubSeq(xstack, 1, Len(xstack) - 1)
    /\ rootClosed' = (Len(xstack) = 1)
    /\ UNCHANGED <<envVars, queueVars, nTags, nCommentTags,
                   nChars, rootTag, delIds>>

\* The text element of a comment: an open element named text whose start
\* tag was handled in context comment.
IsCommentText(frame) == frame.name = "text" /\ frame.context = "comment"

\* character_data_wrapper: Expat reports character data inside an element.
\* The open text elements of comments keep what they received.
\* Where the context is not comment_text and m_comment_text is empty the
\* call changes nothing, and is left out.
XmlChars ==
    /\ InCallbacks
    /\ xstack # <<>>
    /\ nChars < CharBudget
    /\ m_context = "comment_text" \/ m_comment_text # <<>>
    /\ \E text \in DocTexts :
         /\ Apply(characters(Cur, text))
         /\ xstack' = [i \in 1..Len(xstack) |->
                          IF IsCommentText(xstack[i])
                          THEN [xstack[i] EXCEPT !.chars = Append(@, text)]
                          ELSE xstack[i]]
    /\ nChars' = nChars + 1
    /\ UNCHANGED <<envVars, queueVars, rootClosed, nTags,
                   nCommentTags, rootTag, docSel, delIds>>

\* XML_Parse returns XML_STATUS_ERROR on a chunk that is not well-formed:
\* operator() throws xml_error.
XmlError ==
    /\ InCallbacks
    /\ Apply(Throw(Cur, "xml_syntax"))
    /\ UNCHANGED <<envVars, queueVars, expatVars>>

\* The loop of run() with a condition that never ends it.
after_chunk_loop_forever(s) ==
    IF m_read_types = {} /\ s.m_header_is_done
    THEN [s EXCEPT !.pc = "header"]
    ELSE [s EXCEPT !.pc = "pop"]

\* The loop of run() without its break.
after_chunk_no_break(s) ==
    IF m_input_queue_done
    THEN [s EXCEPT !.pc = "header"]
    ELSE [s EXCEPT !.pc = "pop"]

\* What run() does when parser() has returned: the break of the loop and
\* the loop's condition.
after_chunk(s) ==
    IF m_read_types = {} /\ s.m_header_is_done
    THEN [s EXCEPT !.pc = "header"]
    ELSE IF m_input_queue_done
    THEN [s EXCEPT !.pc = "header"]
    ELSE [s EXCEPT !.pc = "pop"]

\* XML_Parse returns: with last set, a document whose root element has not
\* been closed is an error.
XmlReturn ==
    /\ pc = "parse"
    /\ IF last /\ ~rootClosed
       THEN Apply(Throw(Cur, "xml_syntax"))
       ELSE Apply(after_chunk(Cur))
    /\ UNCHANGED <<envVars, queueVars, expatVars>>

\* ------------------------------------------------------------------- run
\* The chunks the input queue delivers: bytes of the document, or the empty
\* string that ends the stream.
Chunks == {"bytes", ""}

\* m_input_queue.wait_and_pop(data); m_input_queue_done = data.empty();
\* and the call of parser(data, m_input_queue_done).
wait_and_pop ==
    /\ pc = "pop"
    /\ data' \in Chunks
    /\ m_input_queue_done' = (data' = "")
    /\ last' = m_input_queue_done'
    /\ Apply([Cur EXCEPT !.pc = "parse"])
    /\ UNCHANGED <<envVars, expatVars>>

\* header_is_done() behind the loop.
run_header_is_done ==
    /\ pc = "header"
    /\ Apply([header_is_done(Cur, Site(Cur, "run", "")) EXCEPT !.pc = "flush"])
    /\ UNCHANGED <<envVars, queueVars, expatVars>>

\* The final send without its condition.
run_flush_always(s) == [send_to_output_queue(s, "run") EXCEPT !.pc = "done"]

\* if (m_buffer.committed() > 0) send_to_output_queue(std::move(m_buffer));
run_flush(s) ==
    IF s.m_buffer.committed > 0
    THEN [send_to_output_queue(s, "run") EXCEPT !.pc = "done"]
    ELSE [s EXCEPT !.pc = "done"]

run_final_flush ==
    /\ pc = "flush"
    /\ Apply(run_flush(Cur))
    /\ UNCHANGED <<envVars, queueVars, expatVars>>

\* Parser::operator() with a handler that leaves the promise alone.
operator_catch_silent ==
    /\ pc = "failed"
    /\ Apply([Cur EXCEPT !.pc = "caught"])
    /\ UNCHANGED <<envVars, queueVars, expatVars>>

\* Parser::operator(): an exception that leaves run() resolves the pending
\* header promise with it and ends the task.
operator_catch ==
    /\ pc = "failed"
    /\ IF ~m_header_is_done
       THEN Apply([Cur EXCEPT !.pc = "caught", !.m_header_is_done = TRUE,
                              !.promise.state = "exception",
                              !.promise.error = err])
       ELSE Apply([Cur EXCEPT !.pc = "caught"])
    /\ UNCHANGED <<envVars, queueVars, expatVars>>

Next ==
    \/ wait_and_pop
    \/ XmlStart
    \/ XmlEnd
    \/ XmlChars
    \/ XmlError
    \/ XmlReturn
    \/ run_header_is_done
    \/ run_final_flush
    \/ operator_catch

Spec == Init /\ [][Next]_vars

SpecOneEntity == InitOneEntity /\ [][Next]_vars

SpecSections == InitSections /\ [][Next]_vars

\* ------------------------------------------- calls on CompressionFactory
parserVars ==
    <<docs, ndebug, m_read_types, pc, err, queueVars, m_header_is_done,
      promise, output, expatVars, m_context, m_last_context,
      m_in_delete_section, m_header, m_buffer, builders, m_comment_text, hdrLog>>

\* The factory singleton as constructed: no registration.
RegInit ==
    /\ docs = "none"
    /\ Constructed
    /\ ndebug = FALSE
    /\ m_read_types = {}

RegisterCompression ==
    \E compression \in Compressions :
      \E cc \in Factories :
        LET r == register_compression(m_callbacks, compression, cc) IN
        /\ m_callbacks' = r.map
        /\ regRet' = [NoCall EXCEPT !.op = "register", !.key = compression,
                                    !.known = compression \in DOMAIN regFirst,
                                    !.ok = r.second]
        /\ regFirst' = IF compression \in DOMAIN regFirst
                       THEN regFirst
                       ELSE regFirst @@ (compression :> cc)
        /\ UNCHANGED <<parserVars, nodeRef, decomp>>

\* What a create call returned, with the call.
Returned(op, compression, r) ==
    [NoCall EXCEPT !.op = op, !.key = compression,
                   !.known = compression \in DOMAIN regFirst,
                   !.result = r.result, !.by = r.by, !.arg = r.arg]

CreateCompressor ==
    \E compression \in Compressions, fd \in 0..MaxArg :
        /\ regRet' = Returned("create_compressor", compression,
                               create_compressor(m_callbacks, compression, fd))
        /\ UNCHANGED <<m_callbacks, regFirst, parserVars, nodeRef, decomp>>

CreateDecompressorFd ==
    \E compression \in Compressions, fd \in 0..MaxArg :
        /\ regRet' = Returned("create_decompressor_fd", compression,
                               create_decompressor_fd(m_callbacks, compression, fd))
        /\ UNCHANGED <<m_callbacks, regFirst, parserVars, nodeRef, decomp>>

CreateDecompressorBuffer ==
    \E compression \in Compressions, size \in 0..MaxArg :
        /\ regRet' = Returned("create_decompressor_buffer", compression,
                               create_decompressor_buffer(m_callbacks, compression, size))
        /\ UNCHANGED <<m_callbacks, regFirst, parserVars, nodeRef, decomp>>

RegNext ==
    \/ RegisterCompression
    \/ CreateCompressor
    \/ CreateDecompressorFd
    \/ CreateDecompressorBuffer

RegSpec == RegInit /\ [][RegNext]_vars

\* ------------------------------------------------------- calls on NodeRef
\* Two default-constructed NodeRefs.
NodeRefInit ==
    /\ docs = "node_ref"
    /\ Constructed
    /\ ndebug = FALSE
    /\ m_read_types = {}

set_ref ==
    \E which \in {"lhs", "rhs"}, ref \in Refs :
        /\ nodeRef' = [nodeRef EXCEPT ![which].ref = ref, !.ret = NoResult]
        /\ UNCHANGED <<parserVars, regVars, decomp>>

set_location ==
    \E which \in {"lhs", "rhs"}, location \in Locations :
        /\ nodeRef' = [nodeRef EXCEPT ![which].location = location, !.ret = NoResult]
        /\ UNCHANGED <<parserVars, regVars, decomp>>

\* The six comparison operators and location_equal on the two objects.
Compare ==
    LET lhs == nodeRef.lhs
        rhs == nodeRef.rhs IN
    /\ nodeRef' = [nodeRef EXCEPT !.ret =
          [NoResult EXCEPT !.op = "compare", !.lhs = lhs, !.rhs = rhs,
                           !.eq = op_eq(lhs, rhs), !.ne = op_ne(lhs, rhs),
                           !.lt = op_lt(lhs, rhs), !.gt = op_gt(lhs, rhs),
                           !.le = op_le(lhs, rhs), !.ge = op_ge(lhs, rhs),
                           !.loc_eq = location_equal(lhs, rhs)]]
    /\ UNCHANGED <<parserVars, regVars, decomp>>

\* positive_ref() on both objects.
PositiveRef ==
    \E p \in positive_ref(nodeRef.lhs), q \in positive_ref(nodeRef.rhs) :
        /\ nodeRef' = [nodeRef EXCEPT !.ret =
              [NoResult EXCEPT !.op = "positive_ref", !.lhs = nodeRef.lhs,
                               !.rhs = nodeRef.rhs, !.pos_lhs = p, !.pos_rhs = q]]
        /\ UNCHANGED <<parserVars, regVars, decomp>>

NodeRefNext ==
    \/ set_ref
    \/ set_location
    \/ Compare
    \/ PositiveRef

NodeRefSpec == NodeRefInit /\ [][NodeRefNext]_vars

\* ------------------------------------------------ calls on NoDecompressor
otherVars == <<parserVars, regVars, nodeRef>>

\* No NoDecompressor constructed yet.
DecompInit ==
    /\ docs = "decompressor"
    /\ Constructed
    /\ ndebug = FALSE
    /\ m_read_types = {}

\* One of the constructors: a NoDecompressor over a file descriptor or over
\* a memory buffer of a size, the null pointer being a buffer of size 0, or
\* a NoCompressor over a file descriptor; -1 is the descriptor of a file
\* that could not be opened.
Construct ==
    /\ decomp.made = "none"
    /\ decomp' \in {NoDecompressor_fd(fd) : fd \in (0 - 1)..MaxArg}
                  \cup {NoDecompressor_buffer("buffer", size) : size \in 0..MaxBufferSize}
                  \cup {NoDecompressor_buffer("nullptr", 0)}
                  \cup {NoCompressor(fd) : fd \in (0 - 1)..MaxArg}
    /\ UNCHANGED otherVars

\* The object is constructed and not destroyed.
Alive == decomp.made # "none" /\ ~decomp.log.destroyed

Read ==
    /\ Alive
    /\ decomp.made \in {"fd", "buffer"}
    /\ Len(decomp.log.chunks) < MaxReads
    /\ decomp.log.fd_reads < MaxReads
    /\ \E nread \in sys_read(decomp.m_fd) : decomp' = read(decomp, nread)
    /\ UNCHANGED otherVars

\* close() of the class of the object.
CloseOf(d) == IF d.made = "compressor" THEN NoCompressor_close(d) ELSE close(d)

Close ==
    /\ Alive
    /\ decomp.log.close_calls < MaxCloses
    /\ decomp' = [CloseOf(decomp) EXCEPT !.log.close_calls = @ + 1]
    /\ UNCHANGED otherVars

\* ~NoCompressor() and ~NoDecompressor(): close().
Destroy ==
    /\ Alive
    /\ decomp' = [CloseOf(decomp) EXCEPT !.log.close_calls = @ + 1,
                                         !.log.destroyed = TRUE]
    /\ UNCHANGED otherVars

DecompNext ==
    \/ Construct
    \/ Read
    \/ Close
    \/ Destroy

DecompSpec == DecompInit /\ [][DecompNext]_vars

\* The input queue delivers the empty chunk.
pop_empty == wait_and_pop /\ data' = ""

\* The scheduling of the parser task: its thread keeps running (XML_Parse
\* returns, the steps of run() and of Parser::operator() are taken, a pop
\* from the input queue and a send to the output queue complete), and the
\* input queue eventually delivers the empty chunk.
Fairness ==
    /\ WF_vars(wait_and_pop)
    /\ SF_vars(pop_empty)
    /\ WF_vars(XmlReturn)
    /\ WF_vars(run_header_is_done)
    /\ WF_vars(run_final_flush)
    /\ WF_vars(operator_catch)

FairSpec == InitShort /\ [][Next]_vars /\ Fairness

\* ================================================================ claims
RECURSIVE ItemsOf(_)
\* The entities of the buffers sent to the output queue, in send order.
ItemsOf(out) ==
    IF out = <<>> THEN <<>> ELSE out[1].items \o ItemsOf(Tail(out))

Emitted == ItemsOf(output)

\* The emitted entities by kind and id.
EmittedKeys ==
    [i \in 1..Len(Emitted) |-> [kind |-> Emitted[i].kind, id |-> Emitted[i].id]]

CountKind(seq, kind) == Cardinality({i \in 1..Len(seq) : seq[i].kind = kind})

\* The run finished without error.
Finished == pc = "done"

\* C1: the header promise is set at most once, exactly once in a run that
\* finishes without error, and only at an entity start tag handled in
\* context top, at the end tag of the root element, or behind the loop of
\* run(); once an entity start tag was handled in top it has been set there.
C1_HeaderSetOnceAtEntityOrRootEnd ==
    /\ Len(hdrLog) <= 1
    /\ Finished => Len(hdrLog) = 1
    /\ (Len(hdrLog) = 1) <=> (promise.state = "value")
    /\ \A i \in 1..Len(hdrLog) :
         \/ /\ hdrLog[i].op = "start_element"
            /\ hdrLog[i].element \in Kinds
            /\ hdrLog[i].context = "top"
         \/ /\ hdrLog[i].op = "end_element"
            /\ hdrLog[i].open = 1
         \/ hdrLog[i].op = "run"
    /\ m_context \notin {"root", "top"} =>
         /\ Len(hdrLog) = 1
         /\ hdrLog[1].op = "start_element"

\* C2: every buffer sent to the output queue, by flush_buffer or behind the
\* loop of run(), is sent in a state where the header is done.
C2_HeaderBeforeFirstBuffer ==
    \A i \in 1..Len(output) : output[i].header_done

C2_Witness ==
    /\ Finished
    /\ \E i \in 1..Len(output) : output[i].site = "flush_buffer"
    /\ \E i \in 1..Len(output) : output[i].site = "run"

\* C3: when the run finished without error the emitted entities are the
\* mask-selected entities of the document in the order of their end tags.
C3_EmittedEqualsDocument ==
    Finished => EmittedKeys = docSel

\* C4: every buffer sent holds whole entities only: it is sent with no
\* builder alive, nothing pending and committed = written.
C4_BuffersHoldWholeEntities ==
    \A i \in 1..Len(output) :
        /\ output[i].builders = {}
        /\ output[i].pending = <<>>
        /\ output[i].committed = output[i].written
        /\ output[i].items # <<>>

C4_Witness ==
    /\ Len(output) = 2
    /\ output[1].site = "flush_buffer"
    /\ Len(output[1].items[1].lists) > 0
    /\ output[2].site = "run"

\* C5: every emitted entity has a kind of the mask, a kind outside the mask
\* never has a builder or an object in the buffer, and when the run finished
\* without error each kind of the mask was emitted as often as it occurs in
\* the document.
C5_MaskFiltering ==
    /\ \A i \in 1..Len(Emitted) : Emitted[i].kind \in m_read_types
    /\ \A k \in Kinds \ m_read_types :
         /\ k \notin builders
         /\ \A i \in 1..Len(m_buffer.items) : m_buffer.items[i].kind # k
         /\ \A i \in 1..Len(m_buffer.pending) : m_buffer.pending[i].kind # k
    /\ Finished =>
         \A k \in m_read_types : CountKind(Emitted, k) = CountKind(docSel, k)

\* C6: every emitted node, way or relation (the kinds init_object gives a
\* visibility) whose start tag occurred while a delete section was open is
\* not visible.
C6_DeletedNotVisible ==
    \A i \in 1..Len(Emitted) :
        (Emitted[i].kind # "changeset" /\ Emitted[i].id \in delIds)
            => ~Emitted[i].visible

\* C7: the header delivered through the promise has
\* has_multiple_object_versions set exactly when the root element is
\* osmChange.
C7_MultiVersionsIffOsmChange ==
    promise.state = "value" =>
        (promise.value.multi <=> rootTag.name = "osmChange")

C7_Witness ==
    /\ promise.state = "value"
    /\ rootTag.name = "osmChange"
    /\ promise.value.multi

\* The task failed with an exception of a kind.
Failed(e) == pc \in {"failed", "caught"} /\ err = e

\* Nothing was written to the buffer and nothing was sent.
NothingBuilt ==
    /\ builders = {}
    /\ m_buffer = NewBuffer(buffer_size)
    /\ output = <<>>

\* C8: a root element osm / osmChange without version "0.6" fails with a
\* format-version error at its start tag: the context stays root, no builder
\* is created and nothing is emitted.
C8_VersionErrorAtRoot ==
    (rootTag.name \in {"osm", "osmChange"} /\ rootTag.version # "0.6") =>
        /\ Failed("format_version")
        /\ m_context = "root"
        /\ NothingBuilt

C8_Witness ==
    /\ rootTag.name = "osmChange"
    /\ rootTag.version = "0.5"
    /\ Failed("format_version")
    /\ m_header.version = "0.5"

\* C9: a first element that is neither osm nor osmChange fails with the
\* unknown top-level element error at its start tag: the context stays
\* root, the header is as constructed and nothing is emitted.
C9_UnknownRootError ==
    (rootTag.name # "" /\ rootTag.name \notin {"osm", "osmChange"}) =>
        /\ Failed("unknown_top_level_element")
        /\ m_context = "root"
        /\ m_header = NewHeader
        /\ promise.state # "value"
        /\ NothingBuilt

C9_Witness ==
    /\ rootTag.name = "other"
    /\ Len(xstack) = 1
    /\ pc = "failed"
    /\ err = "unknown_top_level_element"

\* Every object written so far: sent, committed or being written.
Written == Emitted \o m_buffer.items \o m_buffer.pending

\* The members of every relation written so far have a kind of node, way or
\* relation and a ref that is not zero.
MembersValid ==
    \A i \in 1..Len(Written) :
        \A j \in 1..Len(Written[i].lists) :
            Written[i].lists[j].type = "members" =>
                \A k \in 1..Len(Written[i].lists[j].items) :
                    /\ Written[i].lists[j].items[k].type \in {"node", "way", "relation"}
                    /\ Written[i].lists[j].items[k].ref # 0

\* The open member elements whose start tag was handled in context relation.
RelationMembers ==
    {i \in 1..Len(xstack) :
        xstack[i].name = "member" /\ xstack[i].context = "relation"}

BadType(f) == f.type \notin {"n", "w", "r"}
BadRef(f) == f.ref \in {NoAttr, "0"}

\* The relation being built when a member start tag is handled in context
\* relation is still being written and has not been committed.
EnclosingNotCommitted ==
    /\ "relation" \in builders
    /\ Len(m_buffer.pending) = 1
    /\ m_buffer.pending[1].kind = "relation"
    /\ \A j \in 1..Len(Emitted \o m_buffer.items) :
           (Emitted \o m_buffer.items)[j].id # m_buffer.pending[1].id

\* C10 as stated: a member of a relation being built with a bad type fails
\* with the unknown-member-type error and one with an absent or zero ref
\* fails with the missing-ref error.
C10_Original ==
    /\ MembersValid
    /\ \A i \in RelationMembers :
         /\ BadType(xstack[i]) => Failed("unknown_member_type")
         /\ BadRef(xstack[i]) => Failed("missing_ref")
         /\ (BadType(xstack[i]) \/ BadRef(xstack[i])) => EnclosingNotCommitted

\* C10, amended: the type is checked first, so the missing-ref error is
\* raised for an absent or zero ref only when the type is n, w or r.
C10_MemberChecks ==
    /\ MembersValid
    /\ \A i \in RelationMembers :
         /\ BadType(xstack[i]) => Failed("unknown_member_type")
         /\ (~BadType(xstack[i]) /\ BadRef(xstack[i])) => Failed("missing_ref")
         /\ (BadType(xstack[i]) \/ BadRef(xstack[i])) => EnclosingNotCommitted

C10_Witness ==
    \E i \in RelationMembers :
        /\ ~BadType(xstack[i])
        /\ xstack[i].ref = "0"
        /\ Failed("missing_ref")
        /\ "rml" \in builders

\* The lists of a type opened in an object.
ListsOfType(obj, type) == {j \in 1..Len(obj.lists) : obj.lists[j].type = type}

\* C11: in every object written, each kind of nested list (tags, nodes,
\* members, discussion) was opened at most once.
C11_ListsOpenedOnce ==
    \A i \in 1..Len(Written) :
        \A type \in {"tags", "nodes", "members", "discussion"} :
            Cardinality(ListsOfType(Written[i], type)) <= 1

\* The element of a frame is not one its start tag's context recognizes,
\* below a node, way, relation or changeset.
Unrecognized(frame) ==
    \/ frame.context = "node" /\ frame.name # "tag"
    \/ frame.context = "way" /\ frame.name \notin {"nd", "tag"}
    \/ frame.context = "relation" /\ frame.name \notin {"member", "tag"}
    \/ frame.context = "changeset" /\ frame.name \notin {"discussion", "tag"}
    \/ frame.context = "discussion" /\ frame.name # "comment"
    \/ frame.context = "comment" /\ frame.name # "text"
    \/ frame.context \in {"comment_text", "in_object"}

\* C12: the end tag of an element that is not recognized below an entity
\* returns normally, leaves the context its start tag was handled in, and
\* commits and sends nothing.
C12_UnknownSkipped ==
    [][(/\ pc = "parse"
        /\ xstack # <<>>
        /\ xstack' = SubSeq(xstack, 1, Len(xstack) - 1)
        /\ Unrecognized(xstack[Len(xstack)]))
       => (/\ pc' = "parse"
           /\ m_context' = xstack[Len(xstack)].context
           /\ m_buffer'.committed = m_buffer.committed
           /\ m_buffer'.items = m_buffer.items
           /\ output' = output)]_vars

\* The body of the comment added last to the changeset being written.
LastCommentText(b) ==
    LET obj == b.pending[Len(b.pending)]
        list == obj.lists[LastList(obj, "discussion")]
    IN list.items[Len(list.items)].text

\* C13: the end tag of the text element of a comment, handled in context
\* comment_text, attaches exactly the character data received inside that
\* element and leaves the scratch string empty.
C13_CommentTextIsOwnText ==
    [][(/\ pc = "parse"
        /\ pc' = "parse"
        /\ xstack # <<>>
        /\ xstack' = SubSeq(xstack, 1, Len(xstack) - 1)
        /\ IsCommentText(xstack[Len(xstack)])
        /\ m_context = "comment_text")
       => (/\ LastCommentText(m_buffer') = xstack[Len(xstack)].chars
           /\ m_comment_text' = <<>>)]_vars

\* C14: once an error was raised no buffer is sent to the output queue, and
\* the buffers sent before it stay as they are.
C14_NoSendAfterError ==
    [][err # "none" => output' = output]_vars

C14_Witness ==
    /\ pc = "caught"
    /\ err = "xml_syntax"
    /\ Len(output) = 1
    /\ m_buffer.committed > 0

\* C15: when the task has ended with an error the promise is not pending:
\* it carries that error when the header had not been set, and the header,
\* unchanged, when it had.
C15_PromiseCarriesError ==
    /\ pc = "caught" => promise.state # "pending"
    /\ (pc = "caught" /\ hdrLog = <<>>) =>
          (promise.state = "exception" /\ promise.error = err)
    /\ hdrLog # <<>> => (promise.state = "value" /\ promise.error = "none")

C15_Witness ==
    /\ pc = "caught"
    /\ m_context = "top"
    /\ promise.state = "exception"
    /\ promise.error = "xml_syntax"

\* C16: with an empty entity mask nothing is sent to the output queue, and
\* once the header is done the task is never again about to pop a chunk.
C16_EmptyMaskStopsAfterHeader ==
    m_read_types = {} =>
        /\ output = <<>>
        /\ m_header_is_done => pc # "pop"

C16_Witness ==
    /\ m_read_types = {}
    /\ pc = "done"
    /\ ~m_input_queue_done
    /\ ~rootClosed
    /\ Len(hdrLog) = 1
    /\ hdrLog[1].op = "start_element"

\* The buffers sent behind the loop of run().
RunSends == {i \in 1..Len(output) : output[i].site = "run"}

\* C17: when run() has returned the header promise holds the header, and
\* the residual buffer was sent once, as the last buffer, if its committed
\* size is greater than zero and not at all if it is zero; before that no
\* residual buffer is sent.
C17_EndOfStreamFlush ==
    /\ pc # "done" => RunSends = {}
    /\ Finished =>
         /\ promise.state = "value"
         /\ Cardinality(RunSends) = IF m_buffer.committed > 0 THEN 1 ELSE 0
         /\ \A i \in RunSends :
               /\ i = Len(output)
               /\ output[i].items = m_buffer.items
               /\ output[i].committed = m_buffer.committed

C17_Witness ==
    /\ Finished
    /\ m_input_queue_done
    /\ Len(output) = 1
    /\ output[1].site = "run"
    /\ Len(output[1].items) = 2

\* The parser task has ended: run() returned, or an exception left it and
\* Parser::operator() handled it, or a failed assert() ended the process.
Ended == pc \in {"done", "caught", "aborted"}

\* C18: under the fairness of FairSpec the parser task eventually ends;
\* parser() runs with the last flag set exactly on the empty chunk, and no
\* chunk is popped once the empty one was.
C18_TaskReturns ==
    /\ [](pc = "parse" => (last <=> data = ""))
    /\ [](m_input_queue_done => pc # "pop")
    /\ <>Ended

C18_Witness ==
    /\ pc = "done"
    /\ last
    /\ data = ""
    /\ Len(output) = 1

\* C19: registration is first-wins: register_compression returns true
\* exactly for a key not registered before, and the registry always holds,
\* for every key, the factories of its first registration, which are the
\* ones a later create call invokes.
C19_FirstRegistrationWins ==
    /\ m_callbacks = regFirst
    /\ regRet.op = "register" => (regRet.ok <=> ~regRet.known)
    /\ (regRet.op \notin {"none", "register"} /\ regRet.known) =>
           \E i \in 1..3 : regRet.by = regFirst[regRet.key][i]

C19_Witness ==
    /\ regRet.op = "register"
    /\ regRet.known
    /\ ~regRet.ok
    /\ regRet.key \in DOMAIN m_callbacks

\* The place in a registration of the factory a create call invokes.
Slot(op) ==
    CASE op = "create_compressor" -> 1
      [] op = "create_decompressor_fd" -> 2
      [] OTHER -> 3

\* C20: a create call for a key never registered fails with an error, one
\* for a registered key returns what the matching factory of that key's
\* registration makes of its arguments, and no create call changes the
\* registry.
C20_CreateUsesRegisteredFactory ==
    /\ [](regRet.op \notin {"none", "register"} =>
            IF regRet.known
            THEN /\ regRet.result # "error"
                 /\ regRet.by = regFirst[regRet.key][Slot(regRet.op)]
            ELSE regRet.result = "error")
    /\ [][regRet'.op # "register" => m_callbacks' = m_callbacks]_vars

\* A create call on a registered key, with another key registered by another
\* caller and a third key not registered.
C20_Witness ==
    /\ regRet.op = "create_decompressor_buffer"
    /\ regRet.known
    /\ regRet.by = <<2, "decompressor_buffer">>
    /\ \E k \in DOMAIN m_callbacks : m_callbacks[k] # m_callbacks[regRet.key]
    /\ DOMAIN m_callbacks # Compressions

C20_ErrorWitness ==
    /\ regRet.op = "create_compressor"
    /\ ~regRet.known
    /\ regRet.result = "error"
    /\ m_callbacks # <<>>

\* C21: the comparison of two NodeRefs is the comparison of their refs,
\* whatever their locations: == and < are those of the refs, exactly one of
\* <, ==, > holds, and !=, <=, >= are the negations of ==, >, <.
C21_ComparesRefsOnly ==
    LET r == nodeRef.ret IN
    r.op = "compare" =>
        /\ r.eq <=> r.lhs.ref = r.rhs.ref
        /\ r.lt <=> r.lhs.ref < r.rhs.ref
        /\ Cardinality({x \in {"lt", "eq", "gt"} : r[x]}) = 1
        /\ r.ne <=> ~r.eq
        /\ r.le <=> ~r.gt
        /\ r.ge <=> ~r.lt

\* Two NodeRefs of one ref and two locations compared.
C21_Witness ==
    LET r == nodeRef.ret IN
    /\ r.op = "compare"
    /\ r.lhs.ref = r.rhs.ref
    /\ r.lhs.ref < 0
    /\ ~r.loc_eq
    /\ r.eq

\* The absolute value of a ref.
Abs(r) == IF r < 0 THEN 0 - r ELSE r

\* C22: positive_ref() is the absolute value of the ref, for every ref of the
\* type, and is the same for r and -r.
C22_PositiveRefIsAbs ==
    LET r == nodeRef.ret IN
    r.op = "positive_ref" =>
        /\ r.pos_lhs = Abs(r.lhs.ref)
        /\ r.pos_rhs = Abs(r.rhs.ref)
        /\ r.lhs.ref = 0 - r.rhs.ref => r.pos_lhs = r.pos_rhs

\* C23: at most one of the sub-list builders (tag list, way-node list,
\* relation-member list, discussion) is alive at a time.
C23_OneSubListBuilder == Cardinality(builders \cap SubListBuilders) <= 1

\* A way-node list builder alive in a way that had a tag list builder before.
C23_Witness ==
    /\ builders = {"way", "wnl"}
    /\ Len(m_buffer.pending) = 1
    /\ ListsOfType(m_buffer.pending[1], "tags") # {}

\* C24: the delete section is active only in osmChange: in a document whose
\* root is osm, in_delete_section is never set.
C24_DeleteOnlyInOsmChange ==
    (rootTag.name = "osm" /\ pc # "ub") => ~m_in_delete_section

\* The step is the start tag of an element of a name handled in context top.
StartsAtTop(name) ==
    /\ Len(xstack') = Len(xstack) + 1
    /\ xstack'[Len(xstack')].name = name
    /\ xstack'[Len(xstack')].context = "top"

\* C25: in context top the start tag of delete sets in_delete_section and
\* the start tag of create or modify clears it, so a node whose start tag
\* comes right after the start tag of create, and has no visible attribute,
\* is visible.
C25_CreateClearsDelete ==
    /\ [][/\ StartsAtTop("delete") => m_in_delete_section'
          /\ StartsAtTop("create") => ~m_in_delete_section']_vars
    /\ [](\A i \in 1..(Len(xstack) - 1) :
            (/\ xstack[i].name = "create"
             /\ xstack[i].context = "top"
             /\ xstack[i+1].name = "node"
             /\ xstack[i+1].context = "top"
             /\ xstack[i+1].id = xstack[i].id + 1)
            => \A j \in 1..Len(m_buffer.pending) :
                  m_buffer.pending[j].id = xstack[i+1].id
                      => m_buffer.pending[j].visible)

\* The step is the end tag of an entity handled in the entity's context.
EntityEndTag ==
    /\ pc = "parse"
    /\ pc' = "parse"
    /\ xstack # <<>>
    /\ xstack' = SubSeq(xstack, 1, Len(xstack) - 1)
    /\ xstack[Len(xstack)].name \in Kinds
    /\ xstack[Len(xstack)].context = "top"
    /\ m_context = xstack[Len(xstack)].name

\* 90% of the capacity of the buffer.
Watermark == (buffer_size * 9) \div 10

\* C26: after the end tag of an entity the buffer is sent and replaced by an
\* empty one of the same capacity when what is committed has reached 90% of
\* the capacity, and is kept, nothing being sent, when it is below.
C26_FlushAtWatermark ==
    [][EntityEndTag =>
          IF m_buffer.written >= Watermark
          THEN /\ Len(output') = Len(output) + 1
               /\ m_buffer' = NewBuffer(buffer_size)
          ELSE /\ output' = output
               /\ m_buffer'.committed = m_buffer.written]_vars

\* C27: a buffer is sent to the output queue only while XML_Parse is not
\* running on a chunk: never by a step that is a callback of Expat.
C27_NoSendInsideCallback ==
    [][output' # output => ~InCallbacks]_vars

IgnoredContexts ==
    {"ignored_node", "ignored_way", "ignored_relation", "ignored_changeset"}

\* What an element below an ignored entity must leave alone.
IgnoredFrame ==
    /\ m_context' = m_context
    /\ m_buffer' = m_buffer
    /\ builders' = builders
    /\ m_header' = m_header
    /\ m_in_delete_section' = m_in_delete_section

\* C28: in an ignored_* context every start tag, and every end tag but the
\* one that closes the ignored entity, leaves the context, the buffer, the
\* builders, the header and in_delete_section unchanged, and the end tag of
\* the ignored entity returns the context to top.
C28_IgnoredConsumesChildren ==
    [][(pc = "parse" /\ pc' = "parse" /\ m_context \in IgnoredContexts) =>
          /\ Len(xstack') = Len(xstack) + 1 => IgnoredFrame
          /\ (Len(xstack') = Len(xstack) - 1
                 /\ xstack[Len(xstack)].context # "top") => IgnoredFrame
          /\ (Len(xstack') = Len(xstack) - 1
                 /\ xstack[Len(xstack)].context = "top") => m_context' = "top"]_vars

\* C29: in the contexts root, top and ignored_* no builder is alive and all
\* that is written to the buffer is committed; no assert() on the builders
\* fails; and after the end tag of an entity that is read no builder is alive
\* and the context is top.
C29_NoBuilderOutsideEntity ==
    /\ []((m_context \in {"root", "top"} \cup IgnoredContexts) =>
            /\ builders = {}
            /\ m_buffer.committed = m_buffer.written
            /\ m_buffer.pending = <<>>)
    /\ [][(/\ pc = "parse"
            /\ xstack # <<>>
            /\ xstack' = SubSeq(xstack, 1, Len(xstack) - 1)
            /\ xstack[Len(xstack)].docEnt
            /\ xstack[Len(xstack)].name \in m_read_types)
           => (pc' = "parse" /\ builders' = {} /\ m_context' = "top")]_vars

\* The end tag of a way with a tag list and a way-node list has been handled.
C29_Witness ==
    /\ pc = "parse"
    /\ m_context = "top"
    /\ builders = {}
    /\ m_buffer.pending = <<>>
    /\ \E i \in 1..Len(m_buffer.items) :
          /\ m_buffer.items[i].kind = "way"
          /\ Len(m_buffer.items[i].lists) = 2

\* C30: a NoDecompressor constructed over a memory buffer of size n returns
\* the n bytes of the buffer on the first read() when n > 0 and the empty
\* string on every other read(), and never calls ::read().
C30_BufferReadOnce ==
    decomp.made = "buffer" =>
        /\ decomp.log.fd_reads = 0
        /\ ~decomp.log.thrown
        /\ \A i \in 1..Len(decomp.log.chunks) :
              decomp.log.chunks[i] =
                  IF i = 1 THEN BytesOf("buffer", 0, decomp.n) ELSE <<>>

\* C31: close() is idempotent on NoCompressor and NoDecompressor: over the
\* calls of close() and the destructor the descriptor is closed at most
\* once, after the first of them the stored descriptor is -1, and a
\* NoDecompressor over a memory buffer closes no descriptor.
C31_CloseIdempotent ==
    decomp.made # "none" =>
        /\ decomp.log.fd_closes <= 1
        /\ decomp.log.close_calls >= 1 => decomp.m_fd = 0 - 1
        /\ decomp.made = "buffer" => decomp.log.fd_closes = 0

\* A NoDecompressor over an open file closed twice and destroyed.
C31_Witness ==
    /\ decomp.made = "fd"
    /\ decomp.log.destroyed
    /\ decomp.log.close_calls = MaxCloses + 1
    /\ decomp.log.fd_closes = 1

\* A NoCompressor over an open file closed twice and destroyed.
C31_CompressorWitness ==
    /\ decomp.made = "compressor"
    /\ decomp.log.destroyed
    /\ decomp.log.close_calls = MaxCloses + 1
    /\ decomp.log.fd_closes = 1

\* The element name the assert() of end_element expects in a context.
ExpectedEnd(c) == IF c = "comment_text" THEN "text" ELSE c

\* C32: no assert() of the parser fails on a well-formed document: no start
\* tag is handled in context in_object, no end tag in context root, and an
\* end tag handled in context node, way, relation, changeset, discussion,
\* comment or comment_text is the end tag of node, way, relation, changeset,
\* discussion, comment or text.
C32_AssertionsHold ==
    /\ [](pc # "aborted")
    /\ [][pc = "parse" =>
            /\ Len(xstack') = Len(xstack) + 1 => m_context # "in_object"
            /\ Len(xstack') = Len(xstack) - 1 =>
                  /\ m_context # "root"
                  /\ (m_context \in Kinds \cup {"discussion", "comment", "comment_text"})
                        => xstack[Len(xstack)].name = ExpectedEnd(m_context)]_vars

\* The context of the entity being read: the last context while a child of
\* the entity is open.
EntityContext == IF m_context = "in_object" THEN m_last_context ELSE m_context

\* The comments of the discussion being written.
CommentsWritten ==
    LET obj == m_buffer.pending[Len(m_buffer.pending)]
    IN obj.lists[LastList(obj, "discussion")].items

\* C33: no builder is used while it is null: in context node, way, relation
\* or changeset, or in_object below one of them, the entity builder of the
\* kind is alive; in context discussion, comment or comment_text the
\* changeset builder and the discussion builder are alive, and in comment and
\* comment_text the discussion holds the comment the text belongs to.
C33_BuildersAlive ==
    /\ pc # "ub"
    /\ EntityContext \in Kinds => EntityContext \in builders
    /\ m_context \in {"discussion", "comment", "comment_text"} =>
          /\ {"changeset", "discussion"} \subseteq builders
          /\ m_buffer.pending # <<>>
          /\ m_buffer.pending[Len(m_buffer.pending)].kind = "changeset"
    /\ m_context \in {"comment", "comment_text"} => CommentsWritten # <<>>

\* The text of a comment is being read.
C33_Witness ==
    /\ pc = "parse"
    /\ m_context = "comment_text"
    /\ builders = {"changeset", "discussion"}
    /\ Len(CommentsWritten) = 1

\* C34: the context is root only while no element of the document is open:
\* it returns to root when the root element closes and not before, and no
\* start tag after the root's start tag is handled in context root.
C34_RootOnlyOutsideDocument ==
    /\ [](pc = "parse" /\ xstack # <<>> => m_context # "root")
    /\ [][pc = "parse" /\ Len(xstack') = Len(xstack) + 1 /\ xstack # <<>>
            => m_context # "root"]_vars

\* The step handles the start tag of a bounds element in context top.
BoundsProcessed ==
    /\ pc = "parse"
    /\ m_context = "top"
    /\ Len(xstack') = Len(xstack) + 1
    /\ xstack'[Len(xstack')].name = "bounds"

\* C35: the header delivered through the promise is the header as it is when
\* the promise is resolved and never changes afterwards; a bounds element
\* processed after the resolution comes after the first node, way, relation
\* or changeset start tag, whose header_is_done() resolved the promise, and
\* it adds a box to m_header only: the delivered value, the context, the
\* buffer and the builders stay as they are.
C35_HeaderSnapshot ==
    /\ [][promise.state = "pending" /\ promise'.state = "value"
            => promise'.value = m_header]_vars
    /\ [][promise.state = "value" => promise' = promise]_vars
    /\ [][BoundsProcessed /\ promise.state = "value" =>
            /\ hdrLog[1].op = "start_element"
            /\ hdrLog[1].element \in Kinds
            /\ m_header'.boxes = m_header.boxes + 1
            /\ promise' = promise
            /\ m_context' = m_context
            /\ m_buffer' = m_buffer
            /\ builders' = builders]_vars

====
